---- MODULE Spec2Model ----
(***************************************************************************)
(* Model of VectorDBTextAnalyzer: the generic client of src/vector_db.py   *)
(* and the PDF client of src/PDF_retrieval/vector_db_pdf.py, together with *)
(* the Weaviate store they call.  The store is an external service; it is  *)
(* modelled at the call sites by the contract of the Weaviate v4 client:   *)
(* collections.delete is idempotent, collections.create rejects a name     *)
(* that exists, collections.get is lazy (no round trip), insert_many and   *)
(* near_text are the round trips; insert_many raises when no object of the *)
(* batch was stored and returns the per-object errors otherwise.           *)
(***************************************************************************)
EXTENDS Integers, Sequences, FiniteSets, TLC

VARIABLES
    variant,    \* "base": the client of vector_db.py; "pdf": that of vector_db_pdf.py
    api_key,    \* self.api_key
    client,     \* self.client: 0 for None, else the index of a connection in conns
    conns,      \* the connections connect_to_local has made, in order
    scope,      \* "in" between __enter__ and __exit__ of the with block, else "out"
    store,      \* the store's collections, by name
    dir,        \* the listing of self.data_folder_path, with each file's content
    last,       \* history: the last call made on the client
    prev,       \* history: what is kept of the call before it
    response,   \* the response the last query returned
    given,      \* history: the response as handed to print_search_results
    printed,    \* what print_search_results wrote to stdout
    extracted   \* outcome of extract_text_from_data_files

vars == <<variant, api_key, client, conns, scope, store, dir, last, prev,
          response, given, printed, extracted>>

(* ------------------------------ bounds --------------------------------- *)

MaxConns == 2
MaxCloses == 2
MaxRecords == 2
MaxLimit == 3
MaxDist == 2
MaxFiles == 2
MaxPages == 2
MaxResults == 3

(* ------------------------------ values --------------------------------- *)

\* Python's None (os.environ.get of an unset variable, extract_text of an
\* image-only page).
NoneVal == "None"

\* limit=3 hard-wired in search_pages / search_pages_generative.
PdfLimit == 3

\* self.db_name, and one collection of the store the client does not own.
db_name == "db"
Names == {"db", "other"}

Dist == 1..MaxDist
Texts == {NoneVal, "", "t"}

Min(a, b) == IF a <= b THEN a ELSE b

IsInjective(f) == \A i, j \in DOMAIN f : f[i] = f[j] => i = j

SeqsUpTo(S, n) == UNION { [1..k -> S] : k \in 0..n }

(* ------------------------------ the store ------------------------------ *)

NoCollection == [exists |-> FALSE, objects |-> <<>>]
EmptyCollection == [exists |-> TRUE, objects |-> <<>>]

\* client.collections.delete(name): removes the collection; a name that does
\* not exist is not an error, so the call returns in either case.
StoreDelete(s, name) == [ok |-> TRUE, store |-> [s EXCEPT ![name] = NoCollection]]

\* client.collections.create(name=...): the store rejects a name it already
\* holds and is left as it was.
StoreCreate(s, name) ==
    IF s[name].exists
    THEN [ok |-> FALSE, store |-> s]
    ELSE [ok |-> TRUE, store |-> [s EXCEPT ![name] = EmptyCollection]]

\* The objects of a batch at the positions `kept`, in batch order.
KeptObjs(objs, kept) ==
    LET F[i \in 0..Len(objs)] ==
            IF i = 0 THEN <<>>
            ELSE IF i \in kept THEN Append(F[i - 1], objs[i]) ELSE F[i - 1]
    IN  F[Len(objs)]

\* The answers the store may give to a batch of n objects.  A refused batch
\* (`accepted` false) stores nothing.  An accepted one stores the objects at
\* some positions: all of them, or, when objects fail one by one, some but
\* not all; a batch of which nothing was stored counts as refused.  An empty
\* batch may be answered either way.
InsertOutcomes(n, accepted) ==
    IF accepted
    THEN { kept \in SUBSET (1..n) : kept # {} \/ n = 0 }
    ELSE { {} }

\* collection.data.insert_many(objs): one batched round trip.  A refused batch
\* raises and leaves the store as it was.  An accepted batch returns, also
\* when only part of it (`kept`) was stored: the failures are in the return
\* value.  Objects for a class the schema does not hold are stored under a
\* class the store makes for them (auto-schema).
StoreInsertMany(s, name, objs, accepted, kept) ==
    IF accepted
    THEN [ok |-> TRUE,
          store |-> [s EXCEPT ![name] =
                       [exists |-> TRUE,
                        objects |-> @.objects \o KeptObjs(objs, kept)]]]
    ELSE [ok |-> FALSE, store |-> s]

\* What near_text may deliver for `limit`: min(limit, n) distinct objects of
\* the collection, each with the distance the store computed, in the order
\* the store chose.
Responses(objs, limit) ==
    LET n == Min(limit, Len(objs))
        picks == { p \in [1..n -> (1..Len(objs))] : IsInjective(p) }
    IN  { [i \in 1..n |-> [properties |-> objs[p[i]], distance |-> d[i]]] :
            p \in picks, d \in [1..n -> Dist] }

NoResponse == [objects |-> <<>>, generated |-> NoneVal]

(* ------------------------------ chunker -------------------------------- *)

PdfName(stem) == [stem |-> stem, ext |-> ".pdf"]
FileNames == {PdfName("a"), PdfName("b"), [stem |-> "notes", ext |-> ".txt"]}

\* filename.endswith(".pdf"); a name is its stem and the suffix from its
\* last dot, and it ends in ".pdf" exactly when that suffix is ".pdf".
EndsWithPdf(name) == name.ext = ".pdf"

\* A directory entry: its name, whether pdfplumber can open its content, and
\* the text extract_text() gives for each page.
Entry(name, valid, pages) == [name |-> name, valid |-> valid, pages |-> pages]

\* What a file may hold: pages that pdfplumber can read, or content it cannot
\* open.
Contents ==
    { [valid |-> TRUE, pages |-> p] : p \in SeqsUpTo(Texts, MaxPages) }
    \cup { [valid |-> FALSE, pages |-> <<>>] }

\* os.listdir: k entries of distinct names, in the order the file system
\* gives, each with its content.
Listing(k, names, contents) ==
    [i \in 1..k |-> Entry(names[i], contents[i].valid, contents[i].pages)]

\* (a variant of PageChunks that numbers the pages as enumerate does, from 0)
PageChunks_ZeroBased(filename, pages) ==
    [i \in 1..Len(pages) |->
        [filename |-> filename, chunk_number |-> i - 1, text |-> pages[i]]]

\* for i, page in enumerate(pdf.pages): one chunk per page, numbered i + 1
\* (enumerate counts from 0, the sequence index from 1).
PageChunks(filename, pages) ==
    [i \in 1..Len(pages) |->
        [filename |-> filename, chunk_number |-> (i - 1) + 1, text |-> pages[i]]]

\* The loop of extract_text_from_data_files over the listing from entry k,
\* with the pages, notices and opened files accumulated so far.  The notice
\* for a non-PDF name is printed and the loop body goes on to open the file:
\* there is no continue.  pdfplumber.open raises on content it cannot parse
\* and the exception leaves the method.
RECURSIVE ExtractFrom(_, _, _, _, _)
ExtractFrom(d, k, pages, notices, opened) ==
    IF k > Len(d)
    THEN [exc |-> "none", ret |-> pages, notices |-> notices, opened |-> opened]
    ELSE LET e == d[k]
             n2 == IF ~EndsWithPdf(e.name) THEN Append(notices, e.name)
                   ELSE notices
             o2 == Append(opened, e.name)
         IN  IF ~e.valid
             THEN [exc |-> "PDFSyntaxError", ret |-> <<>>,
                   notices |-> n2, opened |-> o2]
             ELSE ExtractFrom(d, k + 1, pages \o PageChunks(e.name, e.pages),
                              n2, o2)

extract_text_from_data_files(d) == ExtractFrom(d, 1, <<>>, <<>>, <<>>)

NotExtracted == [exc |-> "pending", ret |-> <<>>, notices |-> <<>>, opened |-> <<>>]

(* ------------------------------ the report ----------------------------- *)

\* (an insertion that puts x before the elements of its own distance)
InsertByDistance_BeforeEqual(sq, x) ==
    LET k == Cardinality({ i \in DOMAIN sq : sq[i].distance < x.distance })
    IN  SubSeq(sq, 1, k) \o <<x>> \o SubSeq(sq, k + 1, Len(sq))

\* One step of sorted(..., key=distance) on an already sorted prefix: x goes
\* after every element whose key is not greater than its own, which is what
\* keeps the sort stable.
InsertByDistance(sq, x) ==
    LET k == Cardinality({ i \in DOMAIN sq : sq[i].distance <= x.distance })
    IN  SubSeq(sq, 1, k) \o <<x>> \o SubSeq(sq, k + 1, Len(sq))

\* sorted(response.objects, key=lambda x: x.metadata.distance): a new list,
\* ascending by distance, equal keys in their input order.
RECURSIVE SortedByDistance(_)
SortedByDistance(objs) ==
    IF objs = <<>> THEN <<>>
    ELSE InsertByDistance(SortedByDistance(SubSeq(objs, 1, Len(objs) - 1)),
                          objs[Len(objs)])

\* The lines printed for one result: unique_identifier, text and Distance by
\* the generic client; File, Chunk and Distance by the PDF client.
Block(v, o) ==
    IF v = "base"
    THEN [unique_identifier |-> o.properties.unique_identifier,
          text |-> o.properties.text, Distance |-> o.distance]
    ELSE [File |-> o.properties.filename, Chunk |-> o.properties.chunk_number,
          Distance |-> o.distance]

\* print_search_results(query, response): what goes to stdout, and the
\* response object as the call leaves it.
print_search_results(v, query, resp) ==
    LET response_objects == SortedByDistance(resp.objects)
    IN  [stdout |-> [query |-> query,
                     results |-> [i \in 1..Len(response_objects) |->
                                     Block(v, response_objects[i])]],
         response |-> resp]

NotPrinted == [query |-> NoneVal, results |-> <<>>]

(* ------------------------------ the client ----------------------------- *)

\* What self.client is at a call: None, an open connection or a closed one.
ClientState ==
    IF client = 0 THEN "none"
    ELSE IF conns[client].open THEN "open" ELSE "closed"

Call(op, cleanup, limit, exc, sent) ==
    [op |-> op, cleanup |-> cleanup, limit |-> limit, conn |-> ClientState,
     exc |-> exc, sent |-> sent, kept |-> {}, before |-> store]

NoCall == [op |-> "init", cleanup |-> FALSE, limit |-> 0, conn |-> "none",
           exc |-> "none", sent |-> <<>>, kept |-> {},
           before |-> [n \in Names |-> NoCollection]]

\* What is kept of the call before the last one: whether it was
\* create_db(cleanup=True) made on an open connection, and whether it returned.
Brief(c) ==
    [cleanup_create |-> (c.op = "create_db" /\ c.cleanup /\ c.conn = "open"),
     returned |-> (c.exc = "none")]

\* self.client.<attr> on None raises AttributeError; the Weaviate client
\* refuses every call once it is closed.
UnusableExc == IF client = 0 THEN "AttributeError" ELSE "WeaviateClosedClientError"

\* A store method called while self.client is None or closed: the call raises
\* before any round trip.
Unusable(op, cleanup, limit) ==
    /\ ClientState # "open"
    /\ last' = Call(op, cleanup, limit, UnusableExc, <<>>)
    /\ prev' = Brief(last)
    /\ response' = NoResponse
    /\ UNCHANGED <<variant, api_key, client, conns, scope, store, dir,
                   given, printed, extracted>>

\* __enter__: self.client = weaviate.connect_to_local(headers={"X-OpenAI-Api-Key":
\* self.api_key}).  The key is handed over as read from the environment with
\* no check.  A None value is not a header value the HTTP layer of the client
\* library takes: the connect raises a TypeError.  Any string, the empty one
\* included, is a header value, and the connect succeeds or fails with the
\* store being reachable (`accepted`).  When the connect raises, self.client
\* keeps its value and the with body is not entered.
enter(accepted) ==
    /\ scope = "out"
    /\ Len(conns) < MaxConns
    /\ (api_key = NoneVal => ~accepted)
    /\ IF accepted
       THEN /\ conns' = Append(conns, [open |-> TRUE, closes |-> 0, header |-> api_key])
            /\ client' = Len(conns) + 1
            /\ scope' = "in"
            /\ last' = Call("enter", FALSE, 0, "none", <<>>)
       ELSE /\ UNCHANGED <<conns, client, scope>>
            /\ last' = Call("enter", FALSE, 0,
                            IF api_key = NoneVal THEN "TypeError"
                            ELSE "WeaviateConnectionError",
                            <<>>)
    /\ prev' = Brief(last)
    /\ response' = NoResponse
    /\ UNCHANGED <<variant, api_key, store, dir, given, printed, extracted>>

\* self.client.close()
CloseClient(cs, c) ==
    [cs EXCEPT ![c] = [@ EXCEPT !.open = FALSE, !.closes = @ + 1]]

\* __exit__: runs when the with body is left, normally or by an exception;
\* closes self.client when it is truthy.
exit ==
    /\ scope = "in"
    /\ scope' = "out"
    /\ conns' = IF client # 0 THEN CloseClient(conns, client) ELSE conns
    /\ last' = Call("exit", FALSE, 0, "none", <<>>)
    /\ prev' = Brief(last)
    /\ response' = NoResponse
    /\ UNCHANGED <<variant, api_key, client, store, dir, given, printed, extracted>>

\* close_db_conn: self.client.close(), whatever the state of the connection;
\* self.client is left pointing at it.
close_db_conn ==
    /\ IF client = 0
       THEN /\ UNCHANGED conns
            /\ last' = Call("close_db_conn", FALSE, 0, "AttributeError", <<>>)
       ELSE /\ conns[client].closes < MaxCloses
            /\ conns' = CloseClient(conns, client)
            /\ last' = Call("close_db_conn", FALSE, 0, "none", <<>>)
    /\ prev' = Brief(last)
    /\ response' = NoResponse
    /\ UNCHANGED <<variant, api_key, client, scope, store, dir, given, printed,
                   extracted>>

(* --------------------- the generic client (vector_db.py) --------------- *)

\* The chunks a caller hands to populate_db: dictionaries with at least the
\* keys unique_identifier and text.
InputChunks == [unique_identifier : {"u1", "u2"}, text : {"t"}, page : {1}]

\* chunk_objs.append({"unique_identifier": ..., "text": ...}): the two keys the
\* schema has, and nothing else of the chunk.
ChunkObj(chunk) ==
    [unique_identifier |-> chunk.unique_identifier, text |-> chunk.text]

\* (create_db that leaves out the delete of the cleanup branch)
create_db_base_NoDelete(cleanup) ==
    /\ variant = "base"
    /\ \/ Unusable("create_db", cleanup, 0)
       \/ /\ ClientState = "open"
          /\ LET created == StoreCreate(store, db_name)
             IN  /\ store' = created.store
                 /\ last' = Call("create_db", cleanup, 0,
                                 IF created.ok THEN "none"
                                 ELSE "UnexpectedStatusCodeError",
                                 <<"create">>)
          /\ prev' = Brief(last)
          /\ response' = NoResponse
          /\ UNCHANGED <<variant, api_key, client, conns, scope, dir, given,
                         printed, extracted>>

\* create_db(cleanup): delete the collection when cleanup is set, then create
\* it.  Neither call is guarded: a delete or a create that raises leaves the
\* method at once.
create_db_base(cleanup) ==
    /\ variant = "base"
    /\ \/ Unusable("create_db", cleanup, 0)
       \/ /\ ClientState = "open"
          /\ LET del == IF cleanup THEN StoreDelete(store, db_name)
                        ELSE [ok |-> TRUE, store |-> store]
                 created == StoreCreate(del.store, db_name)
                 sentDel == IF cleanup THEN <<"delete">> ELSE <<>>
             IN  IF ~del.ok
                 THEN /\ store' = del.store
                      /\ last' = Call("create_db", cleanup, 0,
                                      "UnexpectedStatusCodeError", sentDel)
                 ELSE /\ store' = created.store
                      /\ last' = Call("create_db", cleanup, 0,
                                      IF created.ok THEN "none"
                                      ELSE "UnexpectedStatusCodeError",
                                      sentDel \o <<"create">>)
          /\ prev' = Brief(last)
          /\ response' = NoResponse
          /\ UNCHANGED <<variant, api_key, client, conns, scope, dir, given,
                         printed, extracted>>

\* populate_db(chunks): build the objects, collections.get (lazy), insert_many.
\* Nothing asks the store whether the collection exists, and what insert_many
\* returns is dropped.
populate_db(chunks, accepted) ==
    /\ variant = "base"
    /\ \/ Unusable("populate_db", FALSE, 0)
       \/ /\ ClientState = "open"
          /\ Len(store[db_name].objects) + Len(chunks) <= MaxRecords
          /\ \E kept \in InsertOutcomes(Len(chunks), accepted) :
                LET chunk_objs == [i \in 1..Len(chunks) |-> ChunkObj(chunks[i])]
                    ins == StoreInsertMany(store, db_name, chunk_objs, accepted, kept)
                IN  /\ store' = ins.store
                    /\ last' = [Call("populate_db", FALSE, 0,
                                     IF ins.ok THEN "none" ELSE "InsertManyError",
                                     <<"insert_many">>)
                                  EXCEPT !.kept = kept]
          /\ prev' = Brief(last)
          /\ response' = NoResponse
          /\ UNCHANGED <<variant, api_key, client, conns, scope, dir, given,
                         printed, extracted>>

\* The body shared by the four query methods: collections.get (lazy), then
\* near_text with the limit; the store's response is returned as delivered.
\* A class the schema does not hold makes the query fail in the store.
Query(op, limit, generated) ==
    \/ Unusable(op, FALSE, limit)
    \/ /\ ClientState = "open"
       /\ IF store[db_name].exists
          THEN /\ \E objs \in Responses(store[db_name].objects, limit) :
                    response' = [objects |-> objs, generated |-> generated]
               /\ last' = Call(op, FALSE, limit, "none", <<"near_text">>)
          ELSE /\ response' = NoResponse
               /\ last' = Call(op, FALSE, limit, "WeaviateQueryError", <<"near_text">>)
       /\ prev' = Brief(last)
       /\ UNCHANGED <<variant, api_key, client, conns, scope, store, dir, given,
                      printed, extracted>>

\* search(query, limit=3)
search(limit) == variant = "base" /\ Query("search", limit, NoneVal)

\* search_and_answer(query, generative_task, limit=3)
search_and_answer(limit) ==
    variant = "base" /\ Query("search_and_answer", limit, "answer")

(* ------------------ the PDF client (vector_db_pdf.py) ------------------ *)

\* chunk_objs.append({"filename", "chunk_number": int(...), "text"}); int() of
\* the int that enumerate gave is that int.
ChunkObjPdf(chunk) ==
    [filename |-> chunk.filename, chunk_number |-> chunk.chunk_number,
     text |-> chunk.text]

\* The objects _populate_db builds from the data folder.
FolderObjs ==
    LET ret == extract_text_from_data_files(dir).ret
    IN  [i \in 1..Len(ret) |-> ChunkObjPdf(ret[i])]

\* _populate_db on store s: extract, build the objects, insert_many.  An
\* exception of the extraction leaves before any insert; what insert_many
\* returns is dropped.
populate_db_pdf(s, accepted, kept) ==
    LET ext == extract_text_from_data_files(dir)
        chunk_objs == [i \in 1..Len(ext.ret) |-> ChunkObjPdf(ext.ret[i])]
        ins == StoreInsertMany(s, db_name, chunk_objs, accepted, kept)
    IN  IF ext.exc # "none"
        THEN [exc |-> ext.exc, sent |-> <<>>, kept |-> {}, store |-> s]
        ELSE [exc |-> IF ins.ok THEN "none" ELSE "InsertManyError",
              sent |-> <<"insert_many">>, kept |-> kept, store |-> ins.store]

\* (create_db of the PDF client that deletes whatever cleanup says)
create_db_pdf_AlwaysDelete(cleanup, accepted) ==
    /\ variant = "pdf"
    /\ \/ Unusable("create_db", cleanup, 0)
       \/ /\ ClientState = "open"
          /\ \E kept \in InsertOutcomes(Len(FolderObjs), accepted) :
                LET del == StoreDelete(store, db_name)
                    created == StoreCreate(del.store, db_name)
                    sent == <<"delete", "create">>
                    pop == populate_db_pdf(created.store, accepted, kept)
                IN  /\ store' = pop.store
                    /\ last' = [Call("create_db", cleanup, 0, pop.exc,
                                     sent \o pop.sent)
                                  EXCEPT !.kept = pop.kept]
          /\ prev' = Brief(last)
          /\ response' = NoResponse
          /\ UNCHANGED <<variant, api_key, client, conns, scope, dir, given,
                         printed, extracted>>

\* create_db(cleanup) of the PDF client: delete when cleanup is set, create,
\* then _populate_db.  No call is guarded: the first that raises leaves the
\* method, with what the calls before it did to the store.
create_db_pdf(cleanup, accepted) ==
    /\ variant = "pdf"
    /\ \/ Unusable("create_db", cleanup, 0)
       \/ /\ ClientState = "open"
          /\ \E kept \in InsertOutcomes(Len(FolderObjs), accepted) :
                LET del == IF cleanup THEN StoreDelete(store, db_name)
                           ELSE [ok |-> TRUE, store |-> store]
                    created == StoreCreate(del.store, db_name)
                    sentDel == IF cleanup THEN <<"delete">> ELSE <<>>
                    pop == populate_db_pdf(created.store, accepted, kept)
                IN  IF ~del.ok
                    THEN /\ store' = del.store
                         /\ last' = Call("create_db", cleanup, 0,
                                         "UnexpectedStatusCodeError", sentDel)
                    ELSE IF ~created.ok
                    THEN /\ store' = created.store
                         /\ last' = Call("create_db", cleanup, 0,
                                         "UnexpectedStatusCodeError",
                                         sentDel \o <<"create">>)
                    ELSE /\ store' = pop.store
                         /\ last' = [Call("create_db", cleanup, 0, pop.exc,
                                          sentDel \o <<"create">> \o pop.sent)
                                       EXCEPT !.kept = pop.kept]
          /\ prev' = Brief(last)
          /\ response' = NoResponse
          /\ UNCHANGED <<variant, api_key, client, conns, scope, dir, given,
                         printed, extracted>>

\* search_pages(query)
search_pages == variant = "pdf" /\ Query("search_pages", PdfLimit, NoneVal)

\* search_pages_generative(query, generative_task)
search_pages_generative ==
    variant = "pdf" /\ Query("search_pages_generative", PdfLimit, "answer")

(* ------------------------- the client's behaviours --------------------- *)

A_pdf == Entry(PdfName("a"), TRUE, <<"t", NoneVal>>)
Notes_txt == Entry([stem |-> "notes", ext |-> ".txt"], FALSE, <<>>)
B_pdf_corrupt == Entry(PdfName("b"), FALSE, <<>>)

\* The data folders of the client's behaviours.
ClientDirs == { <<>>, <<A_pdf>>, <<A_pdf, Notes_txt>>, <<A_pdf, B_pdf_corrupt>> }

OtherCollection == [exists |-> TRUE, objects |-> <<[unique_identifier |-> "x", text |-> "t"]>>]

Init ==
    /\ variant \in {"base", "pdf"}
    /\ api_key \in {"sk-key", "", NoneVal}
    /\ client = 0
    /\ conns = <<>>
    /\ scope = "out"
    /\ store \in { [n \in Names |-> IF n = db_name THEN NoCollection ELSE o] :
                     o \in {NoCollection, OtherCollection} }
    /\ dir \in (IF variant = "pdf" THEN ClientDirs ELSE {<<>>})
    /\ last = [NoCall EXCEPT !.before = store]
    /\ prev = Brief(NoCall)
    /\ response = NoResponse
    /\ given = NoResponse
    /\ printed = NotPrinted
    /\ extracted = NotExtracted

Next ==
    \/ \E accepted \in BOOLEAN : enter(accepted)
    \/ exit
    \/ close_db_conn
    \/ \E cleanup \in BOOLEAN : create_db_base(cleanup)
    \/ \E chunks \in SeqsUpTo(InputChunks, MaxRecords), accepted \in BOOLEAN :
          populate_db(chunks, accepted)
    \/ \E limit \in 1..MaxLimit : search(limit)
    \/ \E limit \in 1..MaxLimit : search_and_answer(limit)
    \/ \E cleanup \in BOOLEAN, accepted \in BOOLEAN : create_db_pdf(cleanup, accepted)
    \/ search_pages
    \/ search_pages_generative

Spec == Init /\ [][Next]_vars

\* The behaviours of connection, collection and ingestion calls alone.
NextCollections ==
    \/ \E accepted \in BOOLEAN : enter(accepted)
    \/ exit
    \/ close_db_conn
    \/ \E cleanup \in BOOLEAN : create_db_base(cleanup)
    \/ \E chunks \in SeqsUpTo(InputChunks, MaxRecords), accepted \in BOOLEAN :
          populate_db(chunks, accepted)
    \/ \E cleanup \in BOOLEAN, accepted \in BOOLEAN : create_db_pdf(cleanup, accepted)

SpecCollections == Init /\ [][NextCollections]_vars

(* ------------------------- the chunker's behaviours -------------------- *)

\* extract_text_from_data_files() run once on the data folder.
extract ==
    /\ extracted.exc = "pending"
    /\ extracted' = extract_text_from_data_files(dir)
    /\ UNCHANGED <<variant, api_key, client, conns, scope, store, dir, last,
                   prev, response, given, printed>>

InitChunker ==
    /\ variant = "pdf"
    /\ api_key = "sk-key"
    /\ client = 0
    /\ conns = <<>>
    /\ scope = "out"
    /\ store = [n \in Names |-> NoCollection]
    /\ \E k \in 0..MaxFiles :
          \E names \in [1..k -> FileNames], contents \in [1..k -> Contents] :
             /\ IsInjective(names)
             /\ dir = Listing(k, names, contents)
    /\ last = NoCall
    /\ prev = Brief(NoCall)
    /\ response = NoResponse
    /\ given = NoResponse
    /\ printed = NotPrinted
    /\ extracted = NotExtracted

NextChunker == extract

SpecChunker == InitChunker /\ [][NextChunker]_vars

(* ------------------------- the report's behaviours --------------------- *)

\* The result objects a response may hold, for either client.
Matches(v) ==
    IF v = "base"
    THEN [properties : { ChunkObj(c) : c \in InputChunks }, distance : Dist]
    ELSE [properties : { [filename |-> PdfName("a"), chunk_number |-> n, text |-> "t"] :
                            n \in 1..2 },
          distance : Dist]

\* print_search_results(query, response) called on the response at hand.
print ==
    /\ printed = NotPrinted
    /\ LET r == print_search_results(variant, "q", response)
       IN  /\ printed' = r.stdout
           /\ response' = r.response
    /\ UNCHANGED <<variant, api_key, client, conns, scope, store, dir, last,
                   prev, given, extracted>>

InitFormat ==
    /\ variant \in {"base", "pdf"}
    /\ api_key = "sk-key"
    /\ client = 0
    /\ conns = <<>>
    /\ scope = "out"
    /\ store = [n \in Names |-> NoCollection]
    /\ dir = <<>>
    /\ last = NoCall
    /\ prev = Brief(NoCall)
    /\ response \in { [objects |-> o, generated |-> NoneVal] :
                        o \in SeqsUpTo(Matches(variant), MaxResults) }
    /\ given = response
    /\ printed = NotPrinted
    /\ extracted = NotExtracted

NextFormat == print

SpecFormat == InitFormat /\ [][NextFormat]_vars

(* ------------------------------ properties ----------------------------- *)

QueryOps == {"search", "search_and_answer", "search_pages", "search_pages_generative"}

Range(f) == { f[i] : i \in DOMAIN f }

Ascending(objs) ==
    \A i, j \in DOMAIN objs : i < j => objs[i].distance <= objs[j].distance

\* OPENAI_API_KEY is unset, or set to nothing.
KeyAbsent == api_key \in {NoneVal, ""}

\* The client was built with a key.
KeyPresent == ~KeyAbsent

\* The last call was create_db(cleanup=True) on an open connection.
CleanupCreate == last.op = "create_db" /\ last.cleanup /\ last.conn = "open"

\* The last call was create_db(cleanup=True) on an open connection, directly
\* after another such call.
TwiceInARow ==
    /\ last.op = "create_db" /\ last.cleanup /\ last.conn = "open"
    /\ prev.cleanup_create

\* The delete of the last call returned and the create after it was sent.
DeleteStepReturned ==
    Len(last.sent) >= 2 /\ last.sent[1] = "delete" /\ last.sent[2] = "create"

\* C1 (as claimed): populate or search called on an open connection (of a
\* client that has its key) while the target collection does not exist raises,
\* sends no insert or query to the store and creates no collection.
C1_PreconditionChecked ==
    (/\ last.op \in QueryOps \cup {"populate_db"}
     /\ KeyPresent
     /\ last.conn = "open"
     /\ ~last.before[db_name].exists)
    => (/\ last.exc # "none"
        /\ last.sent = <<>>
        /\ ~store[db_name].exists)

\* C2 (as claimed): a search that returns hands back at most `limit` matches,
\* in ascending order of distance, whatever order the store delivered.
C2_SearchSorted ==
    (last.op \in QueryOps /\ KeyPresent /\ last.exc = "none")
    => (/\ Len(response.objects) <= last.limit
        /\ Ascending(response.objects))

\* C3 (as claimed): once the chunker has run, every entry whose name does not
\* end in ".pdf" has a notice, was not opened as a PDF, contributed no chunk,
\* and did not stop the run.
C3_NonPdfSkipped ==
    extracted.exc # "pending"
    => \A i \in DOMAIN dir :
          ~EndsWithPdf(dir[i].name)
          => (/\ dir[i].name \notin Range(extracted.opened)
              /\ \A p \in DOMAIN extracted.ret :
                    extracted.ret[p].filename # dir[i].name
              /\ ((\A j \in DOMAIN dir : EndsWithPdf(dir[j].name) => dir[j].valid)
                  => (/\ extracted.exc = "none"
                      /\ dir[i].name \in Range(extracted.notices))))

\* C4 (as claimed, for the failures that precede the bulk insert): a
\* create_db of the PDF client that raises, on an open connection, leaves the
\* store as it was before the call.
C4_AllOrNothing ==
    (/\ variant = "pdf"
     /\ KeyPresent
     /\ last.op = "create_db"
     /\ last.conn = "open"
     /\ last.exc # "none"
     /\ "insert_many" \notin Range(last.sent))
    => store = last.before

\* C5 (as claimed): after create_db(cleanup=True) twice in a row, both calls
\* having returned, the deletion step has raised nothing, the collection
\* exists and is empty, and the store is as the first call left it.
C5_TwiceLeavesEmpty ==
    (TwiceInARow /\ KeyPresent /\ prev.returned /\ last.exc = "none")
    => (/\ DeleteStepReturned
        /\ store[db_name] = EmptyCollection
        /\ store = last.before)

\* C5 (amended): the deletion step of a create_db(cleanup=True) made on an
\* open connection raises nothing, in the first call as in the second.  On
\* the generic client the second of two such calls in a row returns and
\* leaves the collection existing and empty and the whole store as the first
\* call left it.  On the PDF client, when the second call returns, the
\* collection exists, no other collection has changed, and the collection
\* holds, in order, the chunks of the data folder that the call's own bulk
\* insert stored and nothing else: nothing of before the call is left.
C5_TwiceSameCollection ==
    /\ CleanupCreate => DeleteStepReturned
    /\ (TwiceInARow /\ variant = "base")
       => (/\ last.exc = "none"
           /\ store[db_name] = EmptyCollection
           /\ store = last.before)
    /\ (TwiceInARow /\ variant = "pdf" /\ last.exc = "none")
       => (/\ store[db_name].exists
           /\ \A n \in Names \ {db_name} : store[n] = last.before[n]
           /\ store[db_name].objects = KeptObjs(FolderObjs, last.kept))

\* C5 witness: on the PDF client two cleanup calls in a row have returned,
\* the second over the records the first had stored, and the collection
\* holds records again.
C5_Witness ==
    /\ TwiceInARow /\ KeyPresent /\ variant = "pdf"
    /\ prev.returned /\ last.exc = "none"
    /\ last.before[db_name].objects # <<>>
    /\ store[db_name].objects # <<>>

\* C6 (as claimed): for a client that has its key, no connection is closed
\* more than once, outside the scope every connection that was opened has
\* been closed exactly once, and every round trip to the store was made on an
\* open connection.
C6_ClosedExactlyOnce ==
    KeyPresent
    => (/\ \A i \in DOMAIN conns : conns[i].closes <= 1
        /\ scope = "out"
           => \A i \in DOMAIN conns : ~conns[i].open /\ conns[i].closes = 1
        /\ last.sent # <<>> => last.conn = "open")

\* The pages of the whole listing.
RECURSIVE TotalPages(_)
TotalPages(d) ==
    IF d = <<>> THEN 0 ELSE Len(d[Len(d)].pages) + TotalPages(SubSeq(d, 1, Len(d) - 1))

\* C7: for a folder of valid PDFs only, the chunker returns one chunk per
\* page: as many chunks as pages in total; for each file its chunks are
\* numbered 1..pages in page order and carry the page's text as extracted,
\* empty or None included; no (filename, chunk_number) pair occurs twice.
C7_ChunkPerPage ==
    (extracted.exc # "pending" /\ \A i \in DOMAIN dir : dir[i].valid)
    => (/\ extracted.exc = "none"
        /\ Len(extracted.ret) = TotalPages(dir)
        /\ \A i \in DOMAIN dir :
              LET mine == SelectSeq(extracted.ret,
                                    LAMBDA c : c.filename = dir[i].name)
              IN  /\ Len(mine) = Len(dir[i].pages)
                  /\ \A k \in DOMAIN mine :
                        /\ mine[k].chunk_number = k
                        /\ mine[k].text = dir[i].pages[k]
        /\ \A p, q \in DOMAIN extracted.ret :
              (/\ extracted.ret[p].filename = extracted.ret[q].filename
               /\ extracted.ret[p].chunk_number = extracted.ret[q].chunk_number)
              => p = q)

\* C7 witness: two valid PDFs were chunked, with a None page and an empty
\* page among them.
C7_Witness ==
    /\ extracted.exc = "none"
    /\ Len(dir) = 2
    /\ \A i \in DOMAIN dir : dir[i].valid /\ Len(dir[i].pages) = 2
    /\ \E p, q \in DOMAIN extracted.ret :
          extracted.ret[p].text = NoneVal /\ extracted.ret[q].text = ""

\* C8: the listing print_search_results prints holds every result of the
\* response exactly once, in non-decreasing order of distance, results of
\* equal distance in their input order; the response is left as it was given.
C8_SortedStableListing ==
    printed # NotPrinted
    => (/\ response = given
        /\ Len(printed.results) = Len(given.objects)
        /\ \E p \in [DOMAIN given.objects -> DOMAIN given.objects] :
              /\ IsInjective(p)
              /\ \A i \in DOMAIN p :
                    printed.results[i] = Block(variant, given.objects[p[i]])
              /\ \A i, j \in DOMAIN p :
                    i < j =>
                       \/ given.objects[p[i]].distance < given.objects[p[j]].distance
                       \/ /\ given.objects[p[i]].distance = given.objects[p[j]].distance
                          /\ p[i] < p[j])

\* C8 witness: a listing was printed for three results given out of order,
\* two of them different results of the same distance.
C8_Witness ==
    /\ printed # NotPrinted
    /\ Len(given.objects) = 3
    /\ given.objects[1].distance > given.objects[2].distance
    /\ given.objects[2].distance = given.objects[3].distance
    /\ given.objects[2].properties # given.objects[3].properties

\* C9: create_db(cleanup=False) called while the collection exists raises and
\* leaves the whole store as it was; and whenever a call takes a collection or
\* any of its records away, the call is create_db(cleanup=True) and the
\* collection is the client's own.
C9_NoImplicitRecreate ==
    /\ (last.op = "create_db" /\ ~last.cleanup /\ last.before[db_name].exists)
       => (store = last.before /\ last.exc # "none")
    /\ \A n \in Names :
          (/\ last.before[n].exists
           /\ \/ ~store[n].exists
              \/ Len(store[n].objects) < Len(last.before[n].objects)
              \/ SubSeq(store[n].objects, 1, Len(last.before[n].objects))
                    # last.before[n].objects)
          => (last.op = "create_db" /\ last.cleanup /\ n = db_name)

\* C9 witness: create_db(cleanup=False) was called on an open connection
\* while the collection existed and held records.
C9_Witness ==
    /\ KeyPresent
    /\ last.op = "create_db" /\ ~last.cleanup /\ last.conn = "open"
    /\ last.before[db_name].exists
    /\ last.before[db_name].objects # <<>>

\* C10 (as claimed): with the API key absent (unset, or set to nothing),
\* entering the scope raises, and no connection is ever made with a None or
\* empty credential header.
C10_AbsentKeyFailsConnect ==
    /\ (last.op = "enter" /\ KeyAbsent) => last.exc # "none"
    /\ \A i \in DOMAIN conns : conns[i].header \notin {NoneVal, ""}

====
